---- MODULE Spec2Model ----
(***************************************************************************)
(* Model of the stockflow backend: the product-creation endpoint           *)
(* (routes/products.py) and the low-stock alert computation                *)
(* (routes/alerts.py) with its helpers _ads, _threshold, _best_supplier.   *)
(*                                                                         *)
(* Optional values (Python None) are sequences of length at most one:      *)
(* None is << >> and a present value v is << v >>.  Text is a sequence of  *)
(* one-character strings so that strip() and int() are really computed.    *)
(***************************************************************************)
EXTENDS Integers, Sequences, FiniteSets, TLC

VARIABLES
    products,      \* committed rows of table Product (create_product store)
    inventory,     \* committed rows of table Inventory (create_product store)
    requests,      \* number of create_product requests handled so far
    lastReq,       \* Optional: sku, warehouse_id and initial_quantity of the last payload
    lastFault,     \* the persistence failure raised while handling the last request
    lastStatus,    \* HTTP status of the last create_product response (0: none yet)
    lastErrors,    \* the fields named in the "errors" object of the last response
    lastWrites,    \* number of writes attempted on the session by the last request
    thresholds,    \* table ProductThreshold, rows in insertion order
    productTypes,  \* table ProductType
    thrCall,       \* Optional: arguments of the last _threshold call
    thrResult,     \* Optional: value returned by the last _threshold call
    links,         \* table ProductSupplier, rows in insertion order
    supCall,       \* Optional: arguments of the last _best_supplier call
    supResult,     \* Optional: Supplier returned by the last _best_supplier call
    invTable,      \* table Inventory read by low_stock_alerts, rows in scan order
    call,          \* Optional: parameters of the last low_stock_alerts request
    scan,          \* Optional: what the scan loop of that request left behind
    resp           \* Optional: its response

createVars == <<products, inventory, requests, lastReq, lastFault, lastStatus, lastErrors, lastWrites>>
thrVars == <<thresholds, productTypes, thrCall, thrResult>>
supVars == <<links, supCall, supResult>>
alertVars == <<invTable, call, scan, resp>>
vars == <<createVars, thrVars, supVars, alertVars>>

None == << >>
Some(v) == << v >>
IsNone(o) == o = << >>
Val(o) == o[1]

(***************************************************************************)
(* Bounds                                                                  *)
(***************************************************************************)
MaxRequests == 2      \* number of create_product requests explored in a run
MaxQtyRaw == 1        \* largest integer part of a raw initial_quantity
MaxThrRows == 2       \* rows of table ProductThreshold
MaxLinks == 2         \* rows of table ProductSupplier
MaxInvRows == 2       \* rows of table Inventory read by low_stock_alerts
MaxLimit == 1         \* largest explicit `limit` query parameter

(***************************************************************************)
(* Python helpers                                                          *)
(***************************************************************************)
IsSpace(c) == c = " "

RECURSIVE LStrip(_)
LStrip(s) == IF s # << >> /\ IsSpace(Head(s)) THEN LStrip(Tail(s)) ELSE s

RECURSIVE RStrip(_)
RStrip(s) == IF s # << >> /\ IsSpace(s[Len(s)]) THEN RStrip(SubSeq(s, 1, Len(s) - 1)) ELSE s

\* str.strip()
Strip(s) == RStrip(LStrip(s))

\* (payload.get(key) or "").strip()
TextField(o) == Strip(IF IsNone(o) THEN << >> ELSE Val(o))

(***************************************************************************)
(* utils/money.py                                                          *)
(* A raw price is None, the text "abc" (kind "text") or a non-negative     *)
(* decimal given in thousandths (kind "num").  as_money quantizes to       *)
(* hundredths with ROUND_HALF_UP; the result is Optional cents, None       *)
(* standing for the raised ValueError.                                     *)
(***************************************************************************)
as_money(val) ==
    IF IsNone(val) \/ Val(val).kind # "num"
    THEN None
    ELSE Some((Val(val).v + 5) \div 10)

(***************************************************************************)
(* int(initial_quantity) with the non-negativity test of create_product.   *)
(* A raw quantity is: kind "int" (sgn * mag), kind "half" (v + 0.5 for     *)
(* sgn = 1 and -(v + 0.5) for sgn = -1, v being the magnitude), or kind    *)
(* "null" (JSON null).                                                     *)
(* The result is Optional: None stands for the raised exception.           *)
(***************************************************************************)
\* int() of a float truncates toward zero: sgn * (mag + 0.5) -> sgn * mag
PyInt(q) ==
    CASE q.kind = "int"  -> Some(q.sgn * q.mag)
      [] q.kind = "half" -> Some(q.sgn * q.mag)
      [] OTHER           -> None

ParseQuantity(q) ==
    LET n == PyInt(q) IN
    IF IsNone(n) THEN None
    ELSE IF Val(n) < 0 THEN None
    ELSE n

(***************************************************************************)
(* Static reference data of the create_product store                       *)
(***************************************************************************)
\* rows of table Warehouse: warehouses 1 and 2 belong to company 1, 3 to company 2
WarehouseTable == { [id |-> 1, company_id |-> 1],
                    [id |-> 2, company_id |-> 1],
                    [id |-> 3, company_id |-> 2] }

\* select(Warehouse.id).where(Warehouse.id == warehouse_id).scalar_one_or_none()
FindWarehouse(warehouse_id) ==
    IF \E w \in WarehouseTable : w.id = warehouse_id THEN Some(warehouse_id) ELSE None

(***************************************************************************)
(* Request payloads of POST /api/products                                  *)
(***************************************************************************)
NameRaws == { None, Some(<< "n", " " >>) }
SkuRaws == { None, Some(<< "A" >>), Some(<< " ", "A" >>), Some(<< "B", " " >>) }
PriceRaws == { Some([kind |-> "text", v |-> 0]), Some([kind |-> "num", v |-> 1995]) }
QtyRaws ==
    { [kind |-> "int", sgn |-> 1, mag |-> m] : m \in 0..MaxQtyRaw }
    \cup { [kind |-> "int", sgn |-> -1, mag |-> 1] }
    \cup { [kind |-> "half", sgn |-> -1, mag |-> 0], [kind |-> "half", sgn |-> 1, mag |-> MaxQtyRaw] }
    \cup { [kind |-> "null", sgn |-> 1, mag |-> 0] }
\* ids a request may name: the existing warehouse 1 and the unknown 4
WarehouseRaws == { None, Some(1), Some(4) }

\* the fields that make the validation block report an error
InvalidFields(p) ==
    (IF IsNone(p.name) THEN {"name"} ELSE {})
    \cup (IF IsNone(p.sku) THEN {"sku"} ELSE {})
    \cup (IF Val(p.price).kind # "num" THEN {"price"} ELSE {})
    \cup (IF p.initial_quantity.kind = "null"
             \/ (p.initial_quantity.kind = "int" /\ p.initial_quantity.sgn < 0)
          THEN {"initial_quantity"} ELSE {})

\* the payloads explored: every combination of the fields in which at most
\* one field is invalid
Payloads ==
    { p \in [ name : NameRaws, sku : SkuRaws, price : PriceRaws,
              initial_quantity : QtyRaws, warehouse_id : WarehouseRaws ] :
        Cardinality(InvalidFields(p)) <= 1 }

\* failures of the persistence layer other than constraint violations (the
\* `except Exception` branch): the flush or the commit raises
Faults == { "none", "flush", "commit" }

(***************************************************************************)
(* create_product                                                          *)
(***************************************************************************)
\* the validation block: the set of fields reported in `errors`
ValidationErrors(payload) ==
    (IF TextField(payload.name) = << >> THEN {"name"} ELSE {})
    \cup (IF TextField(payload.sku) = << >> THEN {"sku"} ELSE {})
    \cup (IF IsNone(as_money(payload.price)) THEN {"price"} ELSE {})
    \cup (IF IsNone(ParseQuantity(payload.initial_quantity)) THEN {"initial_quantity"} ELSE {})

SkuTaken_NoConstraint(prods, sku) == FALSE

\* the unique constraint on Product.sku, raised at flush as IntegrityError
SkuTaken(prods, sku) == \E p \in prods : p.sku = sku

\* autoincrement primary key of the flushed Product
NewProductId(prods) ==
    IF prods = {} THEN 1
    ELSE 1 + CHOOSE m \in { p.id : p \in prods } : \A q \in prods : q.id <= m

\* the "idempotent set" of the initial inventory inside the transaction
UpsertInventory(inv, product_id, warehouse_id, quantity) ==
    IF \E r \in inv : r.product_id = product_id /\ r.warehouse_id = warehouse_id
    THEN { IF r.product_id = product_id /\ r.warehouse_id = warehouse_id
           THEN [r EXCEPT !.quantity = quantity] ELSE r : r \in inv }
    ELSE inv \cup { [product_id |-> product_id, warehouse_id |-> warehouse_id,
                     quantity |-> quantity] }

Rollback_KeepsPending(committed, pending) == pending

\* db.session.rollback(): the committed store survives, the pending one is dropped
Rollback(committed, pending) == committed

\* db.session.commit(): the pending store becomes the committed one
Commit(committed, pending) == pending

\* The whole handler: the response status, the store it leaves committed,
\* the number of writes it put on the session and the failure that was raised.
HandleCreate(prods, inv, payload, fault) ==
    LET name == TextField(payload.name)
        sku == TextField(payload.sku)
        price == as_money(payload.price)
        initial_quantity == ParseQuantity(payload.initial_quantity)
        warehouse_id == payload.warehouse_id
        store == [products |-> prods, inventory |-> inv]
    IN
    IF ValidationErrors(payload) # {}
    THEN [status |-> 400, errors |-> ValidationErrors(payload), store |-> store,
          writes |-> 0, raised |-> "none"]
    ELSE IF ~IsNone(warehouse_id) /\ IsNone(FindWarehouse(Val(warehouse_id)))
    THEN [status |-> 404, errors |-> {}, store |-> store, writes |-> 0, raised |-> "none"]
    ELSE IF fault = "flush"
    THEN [status |-> 500, errors |-> {}, store |-> Rollback(store, store), writes |-> 1,
          raised |-> "flush"]
    ELSE IF SkuTaken(prods, sku)
    THEN [status |-> 409, errors |-> {}, store |-> Rollback(store, store), writes |-> 1,
          raised |-> "none"]
    ELSE
        LET product == [id |-> NewProductId(prods), name |-> name, sku |-> sku,
                        price |-> Val(price)]
            withProduct == prods \cup {product}
            withInv == IF IsNone(warehouse_id) THEN inv
                       ELSE UpsertInventory(inv, product.id, Val(warehouse_id),
                                            Val(initial_quantity))
            pending == [products |-> withProduct, inventory |-> withInv]
            writes == IF IsNone(warehouse_id) THEN 1 ELSE 2
        IN
        IF fault = "commit"
        THEN [status |-> 500, errors |-> {}, store |-> Rollback(store, pending),
              writes |-> writes, raised |-> "commit"]
        ELSE [status |-> 201, errors |-> {}, store |-> Commit(store, pending),
              writes |-> writes, raised |-> "none"]

CreateProduct(payload, fault) ==
    /\ requests < MaxRequests
    /\ requests' = requests + 1
    /\ \E r \in { HandleCreate(products, inventory, payload, fault) } :
         /\ products' = r.store.products
         /\ inventory' = r.store.inventory
         /\ lastReq' = Some([sku |-> payload.sku, warehouse_id |-> payload.warehouse_id,
                              initial_quantity |-> payload.initial_quantity])
         /\ lastFault' = r.raised
         /\ lastStatus' = r.status
         /\ lastErrors' = r.errors
         /\ lastWrites' = r.writes
    /\ UNCHANGED <<thrVars, supVars, alertVars>>

\* the empty store the application starts with
CreateStart ==
    /\ products = {}
    /\ inventory = {}
    /\ lastReq = None
    /\ requests = 0
    /\ lastFault = "none"
    /\ lastStatus = 0
    /\ lastErrors = {}
    /\ lastWrites = 0

(***************************************************************************)
(* Sequences as tables                                                     *)
(***************************************************************************)
Range(s) == { s[i] : i \in DOMAIN s }

\* all sequences over S of length at most n
SeqsUpTo(S, n) == UNION { [1..k -> S] : k \in 0..n }

(***************************************************************************)
(* _threshold                                                              *)
(***************************************************************************)
Companies == {1, 2}
ProductIds == {1, 2}

\* rows of ProductThreshold: warehouse_id None is the product-level override
ThresholdRows ==
    [ company_id : Companies, product_id : ProductIds,
      warehouse_id : { None, Some(1), Some(2) }, threshold : {0, 2} ]

\* rows of ProductType: the default is nullable
ProductTypeTables ==
    { { [id |-> 1, default_low_stock_threshold |-> dflt] } : dflt \in { None, Some(3) } }

\* `if product.product_type_id:` is false for None and for 0
Truthy(o) == ~IsNone(o) /\ Val(o) # 0

\* precedence ignored: the first override row of the product in table order
_threshold_FirstOverride(table, types, company_id, product, warehouse_id) ==
    LET Hit(r) == /\ r.company_id = company_id
                  /\ r.product_id = product.id
                  /\ r.warehouse_id \in { None, Some(warehouse_id) }
        hits == { j \in DOMAIN table : Hit(table[j]) }
    IN  IF hits # {}
        THEN { table[CHOOSE i \in hits : \A j \in hits : i <= j].threshold }
        ELSE {0}

\* The values _threshold may return.  A SELECT ... LIMIT 1 without ORDER BY
\* yields any one of the rows it matches, so each level contributes the
\* thresholds of all its matching rows.
_threshold(table, types, company_id, product, warehouse_id) ==
    LET Wh(r) == /\ r.company_id = company_id
                 /\ r.product_id = product.id
                 /\ r.warehouse_id = Some(warehouse_id)
        Prod(r) == /\ r.company_id = company_id
                   /\ r.product_id = product.id
                   /\ IsNone(r.warehouse_id)
        t_wh == { table[j].threshold : j \in { i \in DOMAIN table : Wh(table[i]) } }
        t_prod == { table[j].threshold : j \in { i \in DOMAIN table : Prod(table[i]) } }
        t_def == IF Truthy(product.product_type_id)
                 THEN { Val(t.default_low_stock_threshold) :
                          t \in { u \in types : /\ u.id = Val(product.product_type_id)
                                                /\ ~IsNone(u.default_low_stock_threshold) } }
                 ELSE {}
    IN  IF t_wh # {} THEN t_wh
        ELSE IF t_prod # {} THEN t_prod
        ELSE IF t_def # {} THEN t_def
        ELSE {0}

\* products handed to _threshold: product 1 with or without a product type
ThresholdArgs ==
    [ company_id : Companies,
      product : [ id : {1}, product_type_id : { None, Some(1) } ],
      warehouse_id : {1, 2} ]

CallThreshold(args) ==
    /\ thrCall' = Some(args)
    /\ \E t \in _threshold(thresholds, productTypes, args.company_id, args.product,
                           args.warehouse_id) :
         thrResult' = Some(t)
    /\ UNCHANGED <<thresholds, productTypes, createVars, supVars, alertVars>>

ThresholdStart ==
    /\ thresholds = << >>
    /\ productTypes = {}
    /\ thrCall = None
    /\ thrResult = None

(***************************************************************************)
(* _best_supplier                                                          *)
(***************************************************************************)
\* rows of Supplier
SupplierTable == { [id |-> i, name |-> << "s" >>] : i \in 1..3 }

\* rows of ProductSupplier
LinkRows ==
    [ company_id : {1, 2}, product_id : {1}, supplier_id : 1..3,
      preferred : BOOLEAN, lead_time_days : {1, 2} ]
    \cup [ company_id : {1}, product_id : {2}, supplier_id : {1},
           preferred : BOOLEAN, lead_time_days : {1} ]

\* ORDER BY lead_time_days ASC, supplier_id ASC
LinkBefore(a, b) ==
    \/ a.lead_time_days < b.lead_time_days
    \/ a.lead_time_days = b.lead_time_days /\ a.supplier_id <= b.supplier_id

\* SELECT supplier_id ... ORDER BY ... LIMIT 1 over the rows `hits` of the
\* table, scalar_one_or_none(): scan the rows keeping the first in the order
RECURSIVE FirstSupplier(_, _, _)
FirstSupplier(table, i, best) ==
    IF i > Len(table) THEN (IF IsNone(best) THEN None ELSE Some(Val(best).supplier_id))
    ELSE IF IsNone(best) \/ ~LinkBefore(Val(best), table[i])
         THEN FirstSupplier(table, i + 1, Some(table[i]))
         ELSE FirstSupplier(table, i + 1, best)

\* db.session.get(Supplier, sid)
GetSupplier(sid) ==
    IF \E s \in SupplierTable : s.id = sid
    THEN Some(CHOOSE s \in SupplierTable : s.id = sid)
    ELSE None

\* the preference flag ignored: shortest lead time over all links
_best_supplier_AnyLink(table, company_id, product_id) ==
    LET All(r) == r.company_id = company_id /\ r.product_id = product_id
        sid == FirstSupplier(SelectSeq(table, All), 1, None)
    IN  IF IsNone(sid) THEN None ELSE GetSupplier(Val(sid))

_best_supplier(table, company_id, product_id) ==
    LET Pref(r) == /\ r.company_id = company_id
                   /\ r.product_id = product_id
                   /\ r.preferred = TRUE
        All(r) == r.company_id = company_id /\ r.product_id = product_id
        pref == FirstSupplier(SelectSeq(table, Pref), 1, None)
        sid == IF IsNone(pref) THEN FirstSupplier(SelectSeq(table, All), 1, None) ELSE pref
    IN  IF IsNone(sid) THEN None ELSE GetSupplier(Val(sid))

SupplierArgs == [ company_id : {1, 2}, product_id : {1, 2} ]

CallBestSupplier(args) ==
    /\ supCall' = Some(args)
    /\ supResult' = _best_supplier(links, args.company_id, args.product_id)
    /\ UNCHANGED <<links, createVars, thrVars, alertVars>>

SupplierStart ==
    /\ links = << >>
    /\ supCall = None
    /\ supResult = None

(***************************************************************************)
(* low_stock_alerts: the data it reads                                     *)
(***************************************************************************)
\* rows of Product; product 1 has a product type, product 2 has none
ProductTable == { [id |-> 1, sku |-> << "A" >>, product_type_id |-> Some(1)],
                  [id |-> 2, sku |-> << "B" >>, product_type_id |-> None] }

\* ProductThreshold as the alert requests find it: a warehouse override of 0
\* for (product 1, warehouse 2), product-level overrides for product 2, and
\* a warehouse override for company 2
AlertThresholds ==
    << [company_id |-> 1, product_id |-> 2, warehouse_id |-> None, threshold |-> 1],
       [company_id |-> 1, product_id |-> 1, warehouse_id |-> Some(2), threshold |-> 0],
       [company_id |-> 2, product_id |-> 1, warehouse_id |-> Some(3), threshold |-> 2],
       [company_id |-> 2, product_id |-> 2, warehouse_id |-> None, threshold |-> 2] >>

AlertProductTypes == { [id |-> 1, default_low_stock_threshold |-> Some(2)] }

AlertLinks ==
    << [company_id |-> 1, product_id |-> 1, supplier_id |-> 2,
        preferred |-> FALSE, lead_time_days |-> 1],
       [company_id |-> 1, product_id |-> 1, supplier_id |-> 3,
        preferred |-> TRUE, lead_time_days |-> 2] >>

\* datetime.utcnow(), in days
Now == 10

\* rows of Order and OrderLine
OrderTable ==
    { [id |-> 1, company_id |-> 1, created_at |-> 10, status |-> "shipped"],
      [id |-> 2, company_id |-> 1, created_at |-> 5, status |-> "completed"],
      [id |-> 3, company_id |-> 1, created_at |-> 8, status |-> "pending"],
      [id |-> 4, company_id |-> 2, created_at |-> 9, status |-> "shipped"] }

OrderLineTable ==
    { [order_id |-> 1, product_id |-> 1, warehouse_id |-> 1, qty |-> 2],
      [order_id |-> 2, product_id |-> 1, warehouse_id |-> 1, qty |-> 1],
      [order_id |-> 2, product_id |-> 2, warehouse_id |-> 1, qty |-> 1],
      [order_id |-> 1, product_id |-> 2, warehouse_id |-> 2, qty |-> 3],
      [order_id |-> 3, product_id |-> 1, warehouse_id |-> 2, qty |-> 5],
      [order_id |-> 2, product_id |-> 1, warehouse_id |-> 2, qty |-> 1],
      [order_id |-> 4, product_id |-> 1, warehouse_id |-> 3, qty |-> 1] }

\* rows of Inventory: (product, warehouse) pairs with a quantity
InventoryKeys == { <<1, 1>>, <<2, 1>>, <<1, 2>>, <<2, 2>>, <<1, 3>> }
Quantities == {0, 1, 2}
InventoryRows ==
    { [product_id |-> k[1], warehouse_id |-> k[2], quantity |-> q] :
        k \in InventoryKeys, q \in Quantities }

\* (product_id, warehouse_id) is the key of Inventory
UniqueKeys(table) ==
    \A i, j \in DOMAIN table :
        (table[i].product_id = table[j].product_id
         /\ table[i].warehouse_id = table[j].warehouse_id) => i = j

(***************************************************************************)
(* low_stock_alerts: helpers                                               *)
(***************************************************************************)
RECURSIVE SumQty(_)
SumQty(ls) ==
    IF ls = {} THEN 0
    ELSE LET l == CHOOSE x \in ls : TRUE IN l.qty + SumQty(ls \ {l})

Max(a, b) == IF a >= b THEN a ELSE b

\* _ads: the quotient total / max(lookback_days, 1) as a fraction num / den
_ads(company_id, product_id, warehouse_id, since_dt, lookback_days) ==
    LET ro == { o.id : o \in { x \in OrderTable :
                                 /\ x.company_id = company_id
                                 /\ x.created_at >= since_dt
                                 /\ x.status \in {"shipped", "completed"} } }
        total == SumQty({ l \in OrderLineTable :
                            /\ l.order_id \in ro
                            /\ l.product_id = product_id
                            /\ l.warehouse_id = warehouse_id })
    IN  [num |-> total, den |-> Max(lookback_days, 1)]

\* comparisons of a fraction with a positive denominator against zero
AdsPositive(ads) == ads.num > 0

\* int(text): the decimal value of a non-empty digit string, None for the
\* ValueError int() raises on anything else
DigitValue(c) ==
    CASE c = "0" -> 0 [] c = "1" -> 1 [] c = "2" -> 2 [] c = "3" -> 3 [] OTHER -> -1

RECURSIVE DigitsValue(_, _)
DigitsValue(text, acc) ==
    IF text = << >> THEN Some(acc)
    ELSE IF DigitValue(Head(text)) < 0 THEN None
    ELSE DigitsValue(Tail(text), 10 * acc + DigitValue(Head(text)))

ParseInt(text) == IF text = << >> THEN None ELSE DigitsValue(text, 0)

Keep_AtBoundary(ads, thr, stock) == AdsPositive(ads) /\ thr > 0 /\ stock <= thr

\* the keep / skip decision of one row
Keep(ads, thr, stock) == AdsPositive(ads) /\ thr > 0 /\ stock < thr

\* the skip-reason list of one row, in the order the code appends
Reasons(ads, thr, stock) ==
    (IF ~AdsPositive(ads) THEN << "no_recent_sales" >> ELSE << >>)
    \o (IF thr <= 0 THEN << "zero_threshold" >> ELSE << >>)
    \o (IF stock >= thr THEN << "stock_not_below_threshold" >> ELSE << >>)

\* products.get(pid) / warehouses.get(wid) on the prefetched dictionaries
GetProduct(pid) ==
    IF \E p \in ProductTable : p.id = pid
    THEN Some(CHOOSE p \in ProductTable : p.id = pid) ELSE None

GetWarehouse(wid) ==
    IF \E w \in WarehouseTable : w.id = wid
    THEN Some(CHOOSE w \in WarehouseTable : w.id = wid) ELSE None

\* the inventory query: join on Warehouse, company filter, optional
\* warehouse filter guarded by `if target_warehouse:`
InventoryQuery(table, company_id, target_warehouse) ==
    LET InCompany(r) == \E w \in WarehouseTable :
                            w.id = r.warehouse_id /\ w.company_id = company_id
        InTarget(r) == InCompany(r) /\ r.warehouse_id = Val(target_warehouse)
    IN  IF Truthy(target_warehouse)
        THEN SelectSeq(table, InTarget)
        ELSE SelectSeq(table, InCompany)

LoopBreaks_Never(n, limit) == FALSE

LoopBreaks_Late(n, limit) == n > limit

\* the loop leaves when len(alerts) >= limit after an append
LoopBreaks(n, limit) == n >= limit

DebugAppend_KeptOnly(dbg, debug, rec) ==
    IF debug /\ rec.decision = "keep" THEN Append(dbg, rec) ELSE dbg

\* the debug record of a row, appended when debug is on
DebugAppend(dbg, debug, rec) == IF debug THEN Append(dbg, rec) ELSE dbg

\* the for loop over inv_rows starting at row i; ctx holds the request
RECURSIVE ScanRows(_, _, _, _, _)
ScanRows(rows, i, ctx, alerts, dbg) ==
    IF i > Len(rows) THEN [alerts |-> alerts, dbg |-> dbg, visited |-> Len(rows)]
    ELSE
    LET pid == rows[i].product_id
        wid == rows[i].warehouse_id
        p == GetProduct(pid)
        w == GetWarehouse(wid)
    IN
    IF IsNone(p) \/ IsNone(w) THEN ScanRows(rows, i + 1, ctx, alerts, dbg)
    ELSE
    LET stock == rows[i].quantity
        ads == _ads(ctx.company_id, pid, wid, ctx.since, ctx.lookback_days)
        \* the override keys of the table are unique, so one value is possible
        thr == CHOOSE t \in _threshold(ctx.thresholds, ctx.types, ctx.company_id,
                                       Val(p), wid) : TRUE
        keep == Keep(ads, thr, stock)
        dbg2 == DebugAppend(dbg, ctx.debug,
                    [sku |-> Val(p).sku, product_id |-> pid, warehouse_id |-> wid,
                     stock |-> stock, threshold |-> thr, ads |-> ads,
                     decision |-> IF keep THEN "keep" ELSE "skip",
                     reason_if_skip |-> Reasons(ads, thr, stock)])
    IN
    IF ~keep THEN ScanRows(rows, i + 1, ctx, alerts, dbg2)
    ELSE
    LET sup == _best_supplier(ctx.links, ctx.company_id, pid)
        alerts2 == Append(alerts,
                    [product_id |-> Val(p).id, sku |-> Val(p).sku,
                     warehouse_id |-> Val(w).id, current_stock |-> stock,
                     threshold |-> thr,
                     days_until_stockout |->
                        IF AdsPositive(ads)
                        THEN Some([num |-> stock * ads.den, den |-> ads.num])
                        ELSE None,
                     supplier |-> sup])
    IN
    IF LoopBreaks(Len(alerts2), ctx.limit)
    THEN [alerts |-> alerts2, dbg |-> dbg2, visited |-> i]
    ELSE ScanRows(rows, i + 1, ctx, alerts2, dbg2)

\* the sort key of an alert
Deficiency(a) == a.current_stock - a.threshold

SortBefore_Descending(a, b) == Deficiency(a) >= Deficiency(b)

SortBefore(a, b) == Deficiency(a) <= Deficiency(b)

\* list.sort(key=...): stable, ascending; insertion of x after its equals
RECURSIVE InsertByKey(_, _)
InsertByKey(sorted, x) ==
    IF sorted = << >> THEN << x >>
    ELSE IF SortBefore(Head(sorted), x)
         THEN << Head(sorted) >> \o InsertByKey(Tail(sorted), x)
         ELSE << x >> \o sorted

RECURSIVE SortAlerts(_)
SortAlerts(alerts) ==
    IF alerts = << >> THEN << >>
    ELSE InsertByKey(SortAlerts(SubSeq(alerts, 1, Len(alerts) - 1)), alerts[Len(alerts)])

\* alerts[:limit], also for a negative limit
SlicePrefix(xs, limit) ==
    IF limit >= 0 THEN SubSeq(xs, 1, IF limit < Len(xs) THEN limit ELSE Len(xs))
    ELSE SubSeq(xs, 1, Max(Len(xs) + limit, 0))

\* the truncation after the sort
Truncate(alerts, limit) == IF Len(alerts) > limit THEN SlicePrefix(alerts, limit) ELSE alerts

(***************************************************************************)
(* low_stock_alerts                                                        *)
(***************************************************************************)
DefaultLookbackDays == 30
DefaultLimit == 100

\* query strings: missing parameters are None; warehouse_id is raw text
AlertRequests ==
    [ company_id : Companies,
      lookback_days : { None, Some(0) },
      limit : { None } \cup { Some(n) : n \in -1..MaxLimit },
      warehouse_id : { None, Some(<< "0" >>), Some(<< "2" >>), Some(<< "x" >>) },
      debug : BOOLEAN ]

\* the whole handler: what the loop left behind and the response
HandleAlerts(table, thrTable, types, linkTable, req) ==
    LET lookback_days == IF IsNone(req.lookback_days) THEN DefaultLookbackDays
                         ELSE Val(req.lookback_days)
        limit == IF IsNone(req.limit) THEN DefaultLimit ELSE Val(req.limit)
        parsed == IF IsNone(req.warehouse_id) THEN None ELSE ParseInt(Val(req.warehouse_id))
    IN
    IF ~IsNone(req.warehouse_id) /\ IsNone(parsed)
    THEN [scan |-> None,
          resp |-> [status |-> 400, alerts |-> << >>, total_alerts |-> 0, debug |-> None]]
    ELSE
    LET inv_rows == InventoryQuery(table, req.company_id, parsed)
        ctx == [company_id |-> req.company_id, since |-> Now - lookback_days,
                lookback_days |-> lookback_days, limit |-> limit, debug |-> req.debug,
                thresholds |-> thrTable, types |-> types, links |-> linkTable]
        loop == ScanRows(inv_rows, 1, ctx, << >>, << >>)
        alerts == Truncate(SortAlerts(loop.alerts), limit)
    IN  [scan |-> Some([inv_rows |-> inv_rows, visited |-> loop.visited,
                        collected |-> loop.alerts, limit |-> limit,
                        target_warehouse |-> parsed]),
         resp |-> [status |-> 200, alerts |-> alerts, total_alerts |-> Len(alerts),
                   debug |-> IF req.debug THEN Some(loop.dbg) ELSE None]]

\* one request against the stored snapshot
LowStockAlerts(req) ==
    /\ IsNone(call)
    /\ \E r \in { HandleAlerts(invTable, thresholds, productTypes, links, req) } :
         /\ call' = Some(req)
         /\ scan' = r.scan
         /\ resp' = Some(r.resp)
    /\ UNCHANGED <<invTable, createVars, thrVars, supVars>>

AlertStart ==
    /\ invTable = << >>
    /\ call = None
    /\ scan = None
    /\ resp = None

(***************************************************************************)
(* Specifications                                                          *)
(***************************************************************************)
\* create_product requests against a store that starts empty
InitCreate == CreateStart /\ ThresholdStart /\ SupplierStart /\ AlertStart

NextCreate == \E payload \in Payloads, fault \in Faults : CreateProduct(payload, fault)

SpecCreate == InitCreate /\ [][NextCreate]_vars

\* _threshold over every small ProductThreshold / ProductType content
InitThreshold ==
    /\ CreateStart
    /\ SupplierStart
    /\ AlertStart
    /\ thresholds \in SeqsUpTo(ThresholdRows, MaxThrRows)
    /\ productTypes \in ProductTypeTables
    /\ thrCall = None
    /\ thrResult = None

NextThreshold == \E args \in ThresholdArgs : CallThreshold(args)

SpecThreshold == InitThreshold /\ [][NextThreshold]_vars

\* _best_supplier over every small ProductSupplier content
InitSupplier ==
    /\ CreateStart
    /\ ThresholdStart
    /\ AlertStart
    /\ links \in SeqsUpTo(LinkRows, MaxLinks)
    /\ supCall = None
    /\ supResult = None

NextSupplier == \E args \in SupplierArgs : CallBestSupplier(args)

SpecSupplier == InitSupplier /\ [][NextSupplier]_vars

\* low_stock_alerts over every small Inventory content, in every scan order
InitAlerts ==
    /\ CreateStart
    /\ thresholds = AlertThresholds
    /\ productTypes = AlertProductTypes
    /\ thrCall = None
    /\ thrResult = None
    /\ links = AlertLinks
    /\ supCall = None
    /\ supResult = None
    /\ invTable \in { t \in SeqsUpTo(InventoryRows, MaxInvRows) : UniqueKeys(t) }
    /\ call = None
    /\ scan = None
    /\ resp = None

NextAlerts == \E req \in AlertRequests : LowStockAlerts(req)

SpecAlerts == InitAlerts /\ [][NextAlerts]_vars

(***************************************************************************)
(* Properties of create_product                                            *)
(***************************************************************************)
\* a step that handles one create_product request
RequestStep == requests' = requests + 1

\* the request just handled passed the validation block and the warehouse check
ReqAccepted ==
    /\ lastErrors' = {}
    /\ \/ IsNone(Val(lastReq').warehouse_id)
       \/ \E w \in WarehouseTable : w.id = Val(Val(lastReq').warehouse_id)

\* the request just handled names the sku of a product committed before it
ReqSkuCommitted == \E p \in products : p.sku = TextField(Val(lastReq').sku)

StoreUnchanged == products' = products /\ inventory' = inventory

\* C4: a create_product request (one that passes validation and the warehouse
\* check) whose sku equals the sku of an already committed product performs
\* no partial write: the committed products and inventory rows, quantities
\* included, are the same after the response as before it; and it returns
\* 409 unless the persistence layer itself failed at the flush.
C4_DuplicateSkuNoPartialWrite ==
    [][ (RequestStep /\ ReqAccepted /\ ReqSkuCommitted)
        => /\ StoreUnchanged
           /\ (lastFault' # "flush" => lastStatus' = 409) ]_vars

\* C4 witness: a duplicate-sku request carrying a valid warehouse_id and a
\* positive initial_quantity was answered 409.
C4_Witness ==
    /\ lastStatus = 409
    /\ ~IsNone(lastReq)
    /\ Val(lastReq).warehouse_id = Some(1)
    /\ Val(lastReq).initial_quantity = [kind |-> "int", sgn |-> 1, mag |-> 1]
    /\ \E p \in products : p.sku = TextField(Val(lastReq).sku)

\* C10: create_product is all-or-nothing over any sequence of requests.  A
\* request commits a new product iff it returns 201, and then exactly one;
\* a 201 request that carried a warehouse_id adds exactly one inventory row
\* for (new product, warehouse) with the parsed initial_quantity and nothing
\* else; a 201 request without a warehouse_id leaves the inventory alone;
\* every 400, 404, 409 or 500 leaves products and inventory unchanged; and a
\* 400 or 404 is decided with no write put on the session.
C10_AllOrNothing ==
    [][ RequestStep =>
        LET req == Val(lastReq') IN
        /\ lastStatus' \in {201, 400, 404, 409, 500}
        /\ (products' # products) <=> (lastStatus' = 201)
        /\ lastStatus' = 201 =>
             \E p \in products' :
                /\ products' = products \cup {p}
                /\ \A q \in products : q.id # p.id /\ q.sku # p.sku
                /\ p.sku = TextField(req.sku)
                /\ IF IsNone(req.warehouse_id)
                   THEN inventory' = inventory
                   ELSE LET row == [product_id |-> p.id,
                                    warehouse_id |-> Val(req.warehouse_id),
                                    quantity |-> Val(ParseQuantity(req.initial_quantity))]
                        IN /\ inventory' = inventory \cup {row}
                           /\ { r \in inventory' : r.product_id = p.id } = {row}
        /\ lastStatus' \in {400, 404, 409, 500} => StoreUnchanged
        /\ lastStatus' \in {400, 404} => lastWrites' = 0 ]_vars

\* C10 witness: a second product was committed together with its inventory row
\* after an earlier request had committed the first one.
C10_Witness ==
    /\ lastStatus = 201
    /\ requests = 2
    /\ Cardinality(products) = 2
    /\ Cardinality(inventory) = 2
    /\ \A p \in products : \E r \in inventory : r.product_id = p.id

(***************************************************************************)
(* Properties of _threshold                                                *)
(***************************************************************************)
\* C2: _threshold returns the first value found in the strict order:
\* an override row for exactly (company, product, warehouse); else an
\* override row for (company, product) with null warehouse; else the
\* product type's default when the product has a product type (and the
\* default is set); else 0.  Rows of another company, product or warehouse
\* never supply the value, whatever the order of the rows in the table.
C2_ThresholdPrecedence ==
    ~IsNone(thrCall) =>
        LET a == Val(thrCall)
            t == Val(thrResult)
            mine == { r \in Range(thresholds) :
                        r.company_id = a.company_id /\ r.product_id = a.product.id }
            exact == { r \in mine : r.warehouse_id = Some(a.warehouse_id) }
            level == { r \in mine : r.warehouse_id = None }
            dflt == IF IsNone(a.product.product_type_id) THEN {}
                    ELSE { u \in productTypes :
                             /\ u.id = Val(a.product.product_type_id)
                             /\ u.default_low_stock_threshold # None }
        IN  IF exact # {} THEN \E r \in exact : t = r.threshold
            ELSE IF level # {} THEN \E r \in level : t = r.threshold
            ELSE IF dflt # {} THEN \E u \in dflt : t = Val(u.default_low_stock_threshold)
            ELSE t = 0

\* C2 witness: overrides exist at all three levels with three different
\* values, the product-level row was inserted before the warehouse row, and
\* the call returned the warehouse-specific value.
C2_Witness ==
    /\ ~IsNone(thrCall)
    /\ Val(thrCall).product.product_type_id = Some(1)
    /\ \E u \in productTypes : u.id = 1 /\ u.default_low_stock_threshold = Some(3)
    /\ Len(thresholds) = 2
    /\ thresholds[1] = [company_id |-> Val(thrCall).company_id, product_id |-> 1,
                        warehouse_id |-> None, threshold |-> 2]
    /\ thresholds[2] = [company_id |-> Val(thrCall).company_id, product_id |-> 1,
                        warehouse_id |-> Some(Val(thrCall).warehouse_id), threshold |-> 0]
    /\ thrResult = Some(0)

(***************************************************************************)
(* Properties of _best_supplier                                            *)
(***************************************************************************)
\* C3: _best_supplier returns the supplier of the preferred link with the
\* smallest (lead_time_days, supplier_id) when a link of (company, product)
\* is preferred, even if a non-preferred link has a shorter lead time; with
\* no preferred link, the supplier of the link with the smallest
\* (lead_time_days, supplier_id) over all links of (company, product); and
\* None when there is no link.  The result depends on the set of links only,
\* so it is the same on every call over the same data.
C3_BestSupplier ==
    ~IsNone(supCall) =>
        LET a == Val(supCall)
            mine == { r \in Range(links) :
                        r.company_id = a.company_id /\ r.product_id = a.product_id }
            pref == { r \in mine : r.preferred }
            pool == IF pref # {} THEN pref ELSE mine
        IN  IF pool = {} THEN supResult = None
            ELSE \E r \in pool :
                    /\ \A q \in pool :
                          \/ r.lead_time_days < q.lead_time_days
                          \/ /\ r.lead_time_days = q.lead_time_days
                             /\ r.supplier_id <= q.supplier_id
                    /\ ~IsNone(supResult)
                    /\ Val(supResult).id = r.supplier_id

\* C3 witness: a non-preferred link with the shorter lead time was inserted
\* first, and the call returned the supplier of the preferred link.
C3_Witness ==
    /\ supCall = Some([company_id |-> 1, product_id |-> 1])
    /\ Len(links) = 2
    /\ links[1] = [company_id |-> 1, product_id |-> 1, supplier_id |-> 1,
                   preferred |-> FALSE, lead_time_days |-> 1]
    /\ links[2] = [company_id |-> 1, product_id |-> 1, supplier_id |-> 2,
                   preferred |-> TRUE, lead_time_days |-> 2]
    /\ ~IsNone(supResult)
    /\ Val(supResult).id = 2

(***************************************************************************)
(* Properties of low_stock_alerts                                          *)
(***************************************************************************)
\* the last request was answered 200
Answered == ~IsNone(resp) /\ Val(resp).status = 200

\* the debug list of the last response (empty when debug was off)
DebugRecords == IF Answered /\ ~IsNone(Val(resp).debug) THEN Val(Val(resp).debug) ELSE << >>

\* whether a fetched row qualifies for an alert under the last request
Qualifies(row) ==
    LET req == Val(call)
        lookback == IF IsNone(req.lookback_days) THEN DefaultLookbackDays
                    ELSE Val(req.lookback_days)
        ads == _ads(req.company_id, row.product_id, row.warehouse_id,
                    Now - lookback, lookback)
        thr == CHOOSE t \in _threshold(thresholds, productTypes, req.company_id,
                                       Val(GetProduct(row.product_id)),
                                       row.warehouse_id) : TRUE
    IN  ads.num > 0 /\ thr > 0 /\ row.quantity < thr

\* the (product, warehouse, stock) triples of a list of rows or alerts
RowKeys(rows) ==
    [ i \in DOMAIN rows |-> <<rows[i].product_id, rows[i].warehouse_id, rows[i].quantity>> ]

AlertKeys(alerts) ==
    [ i \in DOMAIN alerts |->
        <<alerts[i].product_id, alerts[i].warehouse_id, alerts[i].current_stock>> ]

\* C1: for every scanned inventory row (stock, ads, threshold) the row is
\* kept iff ads > 0 and threshold > 0 and stock < threshold; its reason list
\* holds no_recent_sales iff ads <= 0, zero_threshold iff threshold <= 0 and
\* stock_not_below_threshold iff stock >= threshold, each independently; so a
\* row is kept iff its reason list is empty, a row with stock = threshold is
\* skipped, and the rows kept are exactly the rows that became alerts (with
\* debug on or off, the alerts collected are the visited rows that satisfy
\* the rule).
C1_KeepRule ==
    /\ \A i \in DOMAIN DebugRecords :
        LET d == DebugRecords[i]
            reasons == Range(d.reason_if_skip)
        IN  /\ (d.decision = "keep")
                  <=> (d.ads.num > 0 /\ d.threshold > 0 /\ d.stock < d.threshold)
            /\ d.decision \in {"keep", "skip"}
            /\ ("no_recent_sales" \in reasons) <=> (d.ads.num <= 0)
            /\ ("zero_threshold" \in reasons) <=> (d.threshold <= 0)
            /\ ("stock_not_below_threshold" \in reasons) <=> (d.stock >= d.threshold)
            /\ reasons \subseteq {"no_recent_sales", "zero_threshold",
                                  "stock_not_below_threshold"}
            /\ (d.decision = "keep") <=> (d.reason_if_skip = << >>)
            /\ (d.stock = d.threshold) => (d.decision = "skip")
    /\ (Answered /\ ~IsNone(Val(resp).debug)) =>
          LET KeptRec(d) == d.decision = "keep"
              kept == SelectSeq(DebugRecords, KeptRec)
              got == Val(scan).collected
          IN  /\ Len(kept) = Len(got)
              /\ \A i \in DOMAIN kept :
                    /\ kept[i].product_id = got[i].product_id
                    /\ kept[i].warehouse_id = got[i].warehouse_id
                    /\ kept[i].stock = got[i].current_stock
                    /\ kept[i].threshold = got[i].threshold
    /\ Answered =>
          AlertKeys(Val(scan).collected)
             = RowKeys(SelectSeq(SubSeq(Val(scan).inv_rows, 1, Val(scan).visited), Qualifies))

\* C1 witness: one row at the boundary stock = threshold with sales was
\* skipped for that reason alone, and a row strictly below its positive
\* threshold was kept.
C1_Witness ==
    /\ \E i \in DOMAIN DebugRecords :
          /\ DebugRecords[i].stock = DebugRecords[i].threshold
          /\ DebugRecords[i].threshold > 0
          /\ DebugRecords[i].ads.num > 0
          /\ DebugRecords[i].decision = "skip"
          /\ DebugRecords[i].reason_if_skip = << "stock_not_below_threshold" >>
    /\ \E i \in DOMAIN DebugRecords :
          /\ DebugRecords[i].stock < DebugRecords[i].threshold
          /\ DebugRecords[i].decision = "keep"

\* C5: with limit >= 1 the scan stops as soon as limit rows have been kept:
\* the alerts it collected are exactly the first min(limit, number of
\* qualifying rows) qualifying rows in scan order, no row after the one that
\* filled the limit is visited, and the response holds the same alerts,
\* only reordered.
C5_EarlyExit ==
    (Answered /\ Val(scan).limit >= 1) =>
        LET sc == Val(scan)
            qual == SelectSeq(sc.inv_rows, Qualifies)
            k == IF sc.limit < Len(qual) THEN sc.limit ELSE Len(qual)
        IN  /\ AlertKeys(sc.collected) = RowKeys(SubSeq(qual, 1, k))
            /\ Len(Val(resp).alerts) = k
            /\ Range(AlertKeys(Val(resp).alerts)) = Range(AlertKeys(sc.collected))
            /\ IF Len(qual) >= sc.limit
               THEN /\ sc.visited \in DOMAIN sc.inv_rows
                    /\ RowKeys(sc.inv_rows)[sc.visited] = RowKeys(qual)[sc.limit]
               ELSE sc.visited = Len(sc.inv_rows)

\* C5 witness: more rows qualify than limit, and a qualifying row that was
\* never returned is more deficient than the alert that was returned.
C5_Witness ==
    /\ Answered
    /\ Val(scan).limit = 1
    /\ Len(SelectSeq(Val(scan).inv_rows, Qualifies)) = 2
    /\ Len(Val(resp).alerts) = 1
    /\ \E i \in DOMAIN Val(scan).inv_rows :
          LET row == Val(scan).inv_rows[i]
              a == Val(resp).alerts[1]
          IN  /\ Qualifies(row)
              /\ <<row.product_id, row.warehouse_id>> # <<a.product_id, a.warehouse_id>>
              /\ \E t \in 1..3 : /\ row.quantity - t < a.current_stock - a.threshold
                                 /\ t \in _threshold(thresholds, productTypes,
                                                     Val(call).company_id,
                                                     Val(GetProduct(row.product_id)),
                                                     row.warehouse_id)

\* C6: the alerts of the response are ordered ascending by
\* current_stock - threshold, and total_alerts is the length of the list.
C6_SortedAscending ==
    Answered =>
        LET as == Val(resp).alerts IN
        /\ \A i \in 1..(Len(as) - 1) :
              as[i].current_stock - as[i].threshold
                 <= as[i + 1].current_stock - as[i + 1].threshold
        /\ Val(resp).total_alerts = Len(as)

\* C6 witness: two alerts were collected less deficient first, and the
\* response lists them most deficient first.
C6_Witness ==
    /\ Answered
    /\ Len(Val(scan).collected) = 2
    /\ Val(scan).collected[1].current_stock - Val(scan).collected[1].threshold
          > Val(scan).collected[2].current_stock - Val(scan).collected[2].threshold
    /\ Val(resp).alerts = << Val(scan).collected[2], Val(scan).collected[1] >>
    /\ Val(resp).total_alerts = 2

\* C7: with debug enabled the response carries one diagnostic record per
\* inventory row the loop visited before it stopped, kept or skipped, in
\* scan order, and the number of records with decision keep equals the
\* number of alerts the scan collected.
C7_DebugPerScannedRow ==
    (Answered /\ Val(call).debug) =>
        LET sc == Val(scan)
            dbg == Val(Val(resp).debug)
            KeptRec(d) == d.decision = "keep"
        IN  /\ Len(dbg) = sc.visited
            /\ \A i \in 1..sc.visited :
                  /\ dbg[i].product_id = sc.inv_rows[i].product_id
                  /\ dbg[i].warehouse_id = sc.inv_rows[i].warehouse_id
                  /\ dbg[i].stock = sc.inv_rows[i].quantity
                  /\ dbg[i].decision \in {"keep", "skip"}
            /\ Len(SelectSeq(dbg, KeptRec)) = Len(sc.collected)

\* C7 witness: a skipped row and then a kept row were scanned with debug on,
\* and both have their record.
C7_Witness ==
    /\ Answered
    /\ Val(call).debug
    /\ Val(scan).visited = 2
    /\ Len(Val(Val(resp).debug)) = 2
    /\ Val(Val(resp).debug)[1].decision = "skip"
    /\ Val(Val(resp).debug)[2].decision = "keep"
    /\ Len(Val(scan).collected) = 1

\* C8: only inventory of warehouses of the requested company is reported,
\* and when warehouse_id is supplied as an integer w (0 included) every
\* alert and every debug record has warehouse_id = w.
C8_WarehouseFilter ==
    Answered =>
        LET wids == { Val(resp).alerts[i].warehouse_id : i \in DOMAIN Val(resp).alerts }
                    \cup { DebugRecords[i].warehouse_id : i \in DOMAIN DebugRecords }
        IN  /\ \A w \in wids : \E x \in WarehouseTable :
                  x.id = w /\ x.company_id = Val(call).company_id
            /\ ~IsNone(Val(scan).target_warehouse)
                  => \A w \in wids : w = Val(Val(scan).target_warehouse)

\* C9 as stated, for every integer limit: the truncation after the sort is
\* redundant, it never removes an alert the scan loop collected.
C9_TruncationRedundant ==
    Answered => Len(Val(resp).alerts) = Len(Val(scan).collected)

\* C9 amended: for every limit >= 1 the scan ends with at most limit alerts
\* collected, so the truncation after the sort removes nothing.
C9_TruncationRedundantPositiveLimit ==
    (Answered /\ Val(scan).limit >= 1) =>
        /\ Len(Val(scan).collected) <= Val(scan).limit
        /\ Len(Val(resp).alerts) = Len(Val(scan).collected)

\* C9 witness: two rows qualify, limit is 1, and the loop left with exactly
\* one alert, which the response returns.
C9_Witness ==
    /\ Answered
    /\ Val(scan).limit = 1
    /\ Len(SelectSeq(Val(scan).inv_rows, Qualifies)) = 2
    /\ Len(Val(scan).collected) = 1
    /\ Val(resp).alerts = Val(scan).collected

====
